---- MODULE Spec2Model ----
(***************************************************************************)
(* Session-lifecycle engine of the pet Face ID backend: the registration   *)
(* capture sessions (pets app) and the QR-gated search sessions            *)
(* (qr_search app), as state machines over the stored records.            *)
(*                                                                         *)
(* A handler is a function from the stored tables and the request to the   *)
(* tables it leaves and the response it gives (the ...Result operators);   *)
(* the actions apply these functions.                                      *)
(*                                                                         *)
(* Time is counted in minutes.  The token of a session is its position in  *)
(* its table (the code draws tokens at random and the tables keep them     *)
(* unique).  A null timestamp is Null, a null reference NoRow.             *)
(***************************************************************************)
EXTENDS Integers, Sequences, FiniteSets, TLC

VARIABLES now, petStatus, regSessions, petImages, jobQueue,
          qrCodes, qrSessions, searchImages, recognitionResults,
          faceEmbeddings, fkEnforced, reqs, args, ret, embeddingJobs

regVars == <<petStatus, regSessions, petImages, jobQueue>>
qrVars == <<qrCodes, qrSessions, searchImages, recognitionResults>>
envVars == <<faceEmbeddings, fkEnforced, args, ret, embeddingJobs>>
vars == <<now, petStatus, regSessions, petImages, jobQueue,
          qrCodes, qrSessions, searchImages, recognitionResults,
          faceEmbeddings, fkEnforced, reqs, args, ret, embeddingJobs>>

(* ---------------------------- bounds ----------------------------------- *)
MaxRegSessions == 2
MaxImages == 1
MaxBatch == 1
MaxIntakeImages == 2
MaxSearches == 2
MaxQRCodes == 1
MaxUsageCap == 2
MaxQRSessions == 2
MaxReqs == 2
TickMinutes == 30
MaxTime == 60
MaxTimeQR == 90
MaxScore == 10000
MaxTemplates == 3
MaxTopK == 3
MaxSourceImages == 3
MaxStored == 2
MaxCoord == 2
MaxJobs == 2
MaxIdLen == 7
MaxNameLen == 4

(* ------------------------ program constants ---------------------------- *)
SessionTTL == 30
QRSessionTTL == 30
ExpireHoursMin == 1
ExpectedImages == 10
TopK == 5
MaxRetries == 3
EagleTrailMin == 9000
LoboTrailMin == 8000

Null == 0 - 1
\* a null reference to a row of a table whose keys are UUIDs
NoRow == <<>>
\* the two sample pets of setup_database.py (Buddy, Whiskers)
Pets == {1, 2}

(* ------------------------------ helpers -------------------------------- *)
\* an HTTP response: status code, the key of the body that carries the
\* message, the message, and the session token the body carries (0: none)
Resp(code, key, error, token) ==
    [code |-> code, key |-> key, error |-> error, token |-> token]

RECURSIVE SeqSum(_)
SeqSum(s) == IF s = <<>> THEN 0 ELSE Head(s) + SeqSum(Tail(s))

(* ======================= registration sessions ========================= *)

\* variant: a session counts as expired from the very minute its TTL ends
RegIsExpiredAtTTL(s, t) ==
    IF s.status = "active" THEN t >= s.start_time + SessionTTL ELSE FALSE

\* PetRegistrationSession.is_expired, read at clock value t
RegIsExpired(s, t) ==
    IF s.status = "active" THEN t > s.start_time + SessionTTL ELSE FALSE

\* PetRegistrationSession.objects.filter(pet=pet, status='active')
ActiveSessions(sessions, p) ==
    {i \in DOMAIN sessions : sessions[i].pet = p /\ sessions[i].status = "active"}

\* PetRegistrationSession.objects.create(pet, session_token, expected_images_count=10)
NewRegSession(p, tok, t) ==
    [pet |-> p, session_token |-> tok, status |-> "active", start_time |-> t,
     end_time |-> Null, expected_images_count |-> ExpectedImages,
     actual_images_count |-> 0]

\* variants: the loop never finds a session that is not expired; the loop
\* saves no stale session
LiveSessionsNone(sessions, p, t) == {}

ExpireStaleNothing(sessions, p, t) == sessions

\* the loop of start_face_id over the pet's active sessions: the sessions it
\* finds not expired, and the table after the stale ones were saved 'expired'
LiveSessions(sessions, p, t) ==
    {i \in ActiveSessions(sessions, p) : ~RegIsExpired(sessions[i], t)}

ExpireStale(sessions, p, t) ==
    [i \in DOMAIN sessions |->
        IF i \in ActiveSessions(sessions, p) /\ RegIsExpired(sessions[i], t)
        THEN [sessions[i] EXCEPT !.status = "expired"]
        ELSE sessions[i]]

\* Meta.ordering = ['-start_time']: the loop meets the newest session first
\* (which of several sessions started at the same time is not determined)
FirstInOrder(sessions, S) ==
    CHOOSE i \in S : \A j \in S : sessions[j].start_time <= sessions[i].start_time

StartRejected(sessions, i) ==
    Resp(400, "error", "Pet already has an active Face ID session",
         sessions[i].session_token)

StartAccepted(tok) ==
    Resp(200, "message", "Face ID session started successfully", tok)

\* PetViewSet.start_face_id, one whole request for pet p
StartFaceIdResult(p) ==
    LET live == LiveSessions(regSessions, p, now) IN
    IF live # {}
    THEN [regSessions |-> regSessions, petStatus |-> petStatus,
          resp |-> StartRejected(regSessions, FirstInOrder(regSessions, live))]
    ELSE [regSessions |-> Append(ExpireStale(regSessions, p, now),
                                 NewRegSession(p, Len(regSessions) + 1, now)),
          petStatus |-> [petStatus EXCEPT ![p] = "processing"],
          resp |-> StartAccepted(Len(regSessions) + 1)]

StartFaceId(p) ==
    LET r == StartFaceIdResult(p) IN
    /\ Len(r.regSessions) <= MaxRegSessions
    /\ regSessions' = r.regSessions
    /\ petStatus' = r.petStatus
    /\ UNCHANGED <<now, petImages, jobQueue, qrVars, envVars, reqs>>

(* ------------------------- image intake -------------------------------- *)
\* what the detector gives for one uploaded image: a best detection with a
\* confidence (in percent), no detection, or an exception
Detections ==
    {[kind |-> "det", conf |-> c] : c \in {50, 60, 70, 80}}
      \cup {[kind |-> "none", conf |-> 0], [kind |-> "raise", conf |-> 0]}

ImageBatches == UNION {[1..n -> Detections] : n \in 0..MaxBatch}

\* variant: a confidence of exactly 0.5 counts as 'poor'
QualityStatusFromHalf(img) ==
    IF img.kind = "det"
    THEN IF img.conf > 70 THEN "good"
         ELSE IF img.conf >= 50 THEN "poor" ELSE "rejected"
    ELSE "rejected"

\* quality classification of PetImageUploadView.post
QualityStatus(img) ==
    IF img.kind = "det"
    THEN IF img.conf > 70 THEN "good"
         ELSE IF img.conf > 50 THEN "poor" ELSE "rejected"
    ELSE "rejected"

\* PetRegistrationSession.objects.get(session_token=value, status='active')
ActiveByToken(sessions, tok) ==
    {i \in DOMAIN sessions :
        sessions[i].session_token = tok /\ sessions[i].status = "active"}

\* PetImageUploadSerializer: validate_session_token, and images (allow_empty=False)
UploadValidation(sessions, tok, images, t) ==
    IF ActiveByToken(sessions, tok) = {} THEN "Invalid session token"
    ELSE IF \E i \in ActiveByToken(sessions, tok) : RegIsExpired(sessions[i], t)
         THEN "Session has expired"
    ELSE IF Len(images) = 0 THEN "This list may not be empty."
    ELSE "ok"

NewPetImages(sess, sid, images) ==
    [k \in 1..Len(images) |->
        [pet |-> sess.pet, session |-> sid,
         sequence_number |-> sess.actual_images_count + (k - 1) + 1,
         quality_status |-> QualityStatus(images[k])]]

\* PetImageUploadView.post, one whole request; the clock is read by the
\* serializer (at now) and, where the request gets that far, again by the
\* view (at now + d)
UploadImagesResult(tok, images, d) ==
    LET verdict == UploadValidation(regSessions, tok, images, now)
        same == [regSessions |-> regSessions, petImages |-> petImages]
    IN
    IF verdict # "ok"
    THEN same @@ [resp |-> Resp(400, IF verdict = "This list may not be empty."
                                     THEN "images" ELSE "session_token", verdict, 0)]
    ELSE LET sid == CHOOSE i \in ActiveByToken(regSessions, tok) : TRUE
             sess == regSessions[sid]
         IN IF RegIsExpired(sess, now + d)
            THEN [regSessions |-> [regSessions EXCEPT ![sid].status = "expired"],
                  petImages |-> petImages,
                  resp |-> Resp(400, "error", "Session has expired", 0)]
            ELSE [regSessions |-> [regSessions EXCEPT ![sid].actual_images_count =
                                      sess.actual_images_count + Len(images)],
                  petImages |-> petImages \o NewPetImages(sess, sid, images),
                  resp |-> Resp(200, "message", "Successfully uploaded", tok)]

UploadImages(tok, images, d) ==
    LET r == UploadImagesResult(tok, images, d) IN
    /\ now + d <= MaxTime
    /\ UploadValidation(regSessions, tok, images, now) # "ok" => d = 0
    /\ Len(r.petImages) <= MaxImages
    /\ now' = now + d
    /\ regSessions' = r.regSessions
    /\ petImages' = r.petImages
    /\ UNCHANGED <<petStatus, jobQueue, qrVars, envVars, reqs>>

(* --------------------------- completion -------------------------------- *)
\* generate_pet_embedding.delay(pet.id, session.id)
Enqueue(queue, p, sid) == Append(queue, [pet |-> p, session |-> sid])

\* variant: the token of a session in any status is accepted
CompleteValidationAnyStatus(sessions, tok) ==
    IF \E i \in DOMAIN sessions : sessions[i].session_token = tok
    THEN "ok" ELSE "Invalid session token"

\* CompleteFaceIDSerializer.validate_session_token
CompleteValidation(sessions, tok) ==
    IF ActiveByToken(sessions, tok) # {} THEN "ok" ELSE "Invalid session token"

\* variant: the caller's word alone decides
CompletionSucceedsDeclared(sess, success) == success

\* "if success and session.actual_images_count > 0"
CompletionSucceeds(sess, success) == success /\ sess.actual_images_count > 0

\* PetViewSet.complete_face_id, one whole request on pet p
CompleteFaceIdResult(p, tok, success) ==
    LET same == [regSessions |-> regSessions, petStatus |-> petStatus,
                 jobQueue |-> jobQueue]
        hit == {i \in DOMAIN regSessions :
                   regSessions[i].session_token = tok /\ regSessions[i].pet = p}
    IN
    IF CompleteValidation(regSessions, tok) # "ok"
    THEN same @@ [resp |-> Resp(400, "session_token", "Invalid session token", 0)]
    ELSE IF hit = {}
    THEN same @@ [resp |-> Resp(404, "error", "Session not found", 0)]
    ELSE LET sid == CHOOSE i \in hit : TRUE
             ok == CompletionSucceeds(regSessions[sid], success)
         IN [regSessions |-> [regSessions EXCEPT
                                 ![sid].end_time = now,
                                 ![sid].status = IF ok THEN "completed" ELSE "failed"],
             petStatus |-> [petStatus EXCEPT ![p] = IF ok THEN "completed" ELSE "failed"],
             jobQueue |-> IF ok THEN Enqueue(jobQueue, p, sid) ELSE jobQueue,
             resp |-> Resp(200, "message",
                           IF ok THEN "Face ID registration completed successfully"
                           ELSE "Face ID registration failed", 0)]

CompleteFaceId(p, tok, success) ==
    LET r == CompleteFaceIdResult(p, tok, success) IN
    /\ regSessions' = r.regSessions
    /\ petStatus' = r.petStatus
    /\ jobQueue' = r.jobQueue
    /\ UNCHANGED <<now, petImages, qrVars, envVars, reqs>>

(* ------------- start_face_id, requests running side by side ----------- *)
\* a request in flight: where it stands, its pet, and the rows its query of the
\* pet's active sessions returned
IdleReq == [pc |-> "idle", pet |-> 0, seen |-> <<>>]

\* active_sessions is evaluated when the loop begins: the request holds the
\* rows as they were then
StartRead(r, p) ==
    /\ reqs[r].pc = "idle"
    /\ reqs' = [reqs EXCEPT ![r] =
                  [pc |-> "read", pet |-> p,
                   seen |-> [i \in ActiveSessions(regSessions, p) |-> regSessions[i]]]]
    /\ UNCHANGED <<now, regVars, qrVars, envVars>>

\* session.save() writes the whole row as the request holds it
SaveExpired(sessions, seen) ==
    [i \in DOMAIN sessions |->
        IF i \in DOMAIN seen THEN [seen[i] EXCEPT !.status = "expired"]
        ELSE sessions[i]]

\* the rest of the request: the loop over the rows read, the create, and the
\* save of the pet
StartFinish(r) ==
    LET seen == reqs[r].seen
        p == reqs[r].pet
    IN
    /\ reqs[r].pc = "read"
    /\ reqs' = [reqs EXCEPT ![r] = IdleReq]
    /\ IF \E i \in DOMAIN seen : ~RegIsExpired(seen[i], now)
       THEN UNCHANGED <<regSessions, petStatus>>
       ELSE /\ Len(regSessions) < MaxRegSessions
            /\ regSessions' = Append(SaveExpired(regSessions, seen),
                                     NewRegSession(p, Len(regSessions) + 1, now))
            /\ petStatus' = [petStatus EXCEPT ![p] = "processing"]
    /\ UNCHANGED <<now, petImages, jobQueue, qrVars, envVars>>

(* ------------- image intake, requests running side by side ----------- *)
\* the images of the uploads that are in flight
RECURSIVE InFlightImages(_)
InFlightImages(n) ==
    IF n = 0 THEN 0
    ELSE InFlightImages(n - 1)
           + (IF reqs[n].pc = "upload" THEN Len(reqs[n].images) ELSE 0)

\* an upload up to the view's get: the serializer accepts the token and the
\* images, and the view holds the session row as it is now
IntakeRead(r, tok, images) ==
    /\ reqs[r].pc = "idle"
    /\ UploadValidation(regSessions, tok, images, now) = "ok"
    /\ Len(petImages) + InFlightImages(MaxReqs) + Len(images) <= MaxIntakeImages
    /\ LET sid == CHOOSE i \in ActiveByToken(regSessions, tok) : TRUE IN
       reqs' = [reqs EXCEPT ![r] =
                  [pc |-> "upload", sid |-> sid, images |-> images,
                   seen |-> regSessions[sid]]]
    /\ UNCHANGED <<now, regVars, qrVars, envVars>>

\* the rest of the upload: the images are created with sequence numbers
\* counted from the row held, and session.save() writes that row with its
\* count raised by the number of images
IntakeFinish(r) ==
    LET seen == reqs[r].seen
        sid == reqs[r].sid
        images == reqs[r].images
    IN
    /\ reqs[r].pc = "upload"
    /\ petImages' = petImages \o NewPetImages(seen, sid, images)
    /\ regSessions' = [regSessions EXCEPT ![sid] =
                          [seen EXCEPT !.actual_images_count = @ + Len(images)]]
    /\ reqs' = [reqs EXCEPT ![r] = IdleReq]
    /\ UNCHANGED <<now, petStatus, jobQueue, qrVars, envVars>>

\* the clock
Tick(limit) ==
    /\ now + TickMinutes <= limit
    /\ now' = now + TickMinutes
    /\ UNCHANGED <<regVars, qrVars, envVars, reqs>>

(* ========================= similarity engine =========================== *)
\* A similarity is kept exactly, as the square [num, den] of the cosine
\* (num/den = cos^2), after the clamp into [0,1]; rounding of the floating
\* point arithmetic is not modelled.
Dot(a, b) == SeqSum([k \in 1..Len(a) |-> a[k] * b[k]])
\* variant: the sum of the absolute values in place of the sum of squares
NormSqManhattan(a) == SeqSum([k \in 1..Len(a) |-> IF a[k] < 0 THEN 0 - a[k] ELSE a[k]])

NormSq(a) == Dot(a, a)

\* variant: no clamp to [0, 1], a negative cosine keeps its sign
CosineSimilarityUnclamped(a, b) ==
    IF Len(a) # Len(b) THEN [num |-> 0, den |-> 1]
    ELSE IF NormSq(a) = 0 \/ NormSq(b) = 0 THEN [num |-> 1, den |-> 1]
    ELSE IF Dot(a, b) <= 0
         THEN [num |-> 0 - Dot(a, b) * Dot(a, b), den |-> NormSq(a) * NormSq(b)]
    ELSE [num |-> Dot(a, b) * Dot(a, b), den |-> NormSq(a) * NormSq(b)]

\* calculate_cosine_similarity, as the square num/den of the value returned.
\* np.dot raises on vectors of different lengths and the except returns 0.0;
\* a zero norm makes the division give nan, and max(0, min(1, nan)) is 1;
\* a negative cosine is clamped to 0.
CosineSimilarity(a, b) ==
    IF Len(a) # Len(b) THEN [num |-> 0, den |-> 1]
    ELSE IF NormSq(a) = 0 \/ NormSq(b) = 0 THEN [num |-> 1, den |-> 1]
    ELSE IF Dot(a, b) <= 0 THEN [num |-> 0, den |-> 1]
    ELSE [num |-> Dot(a, b) * Dot(a, b), den |-> NormSq(a) * NormSq(b)]

\* FaceEmbedding.calculate_similarity, as the signed square num/den of the
\* value returned: 0 when either magnitude is 0, otherwise the quotient as it
\* is, negative when the dot product is; np.dot raises ValueError on vectors
\* of different lengths and nothing catches it.
CalculateSimilarity(a, b) ==
    IF Len(a) # Len(b) THEN "ValueError"
    ELSE IF NormSq(a) = 0 \/ NormSq(b) = 0 THEN [num |-> 0, den |-> 1]
    ELSE IF Dot(a, b) <= 0
         THEN [num |-> 0 - Dot(a, b) * Dot(a, b), den |-> NormSq(a) * NormSq(b)]
    ELSE [num |-> Dot(a, b) * Dot(a, b), den |-> NormSq(a) * NormSq(b)]

SimLess(x, y) == x.num * y.den < y.num * x.den

\* variant: the thresholds themselves fall into the lower level
ConfidenceLevelOfScoreStrict(s) ==
    IF s > EagleTrailMin THEN "eagle_trail"
    ELSE IF s > LoboTrailMin THEN "lobo_trail"
    ELSE "no_match"

\* FaceRecognitionResult.determine_confidence_level on a score given in
\* ten-thousandths (9000 is 0.90)
ConfidenceLevelOfScore(s) ==
    IF s >= EagleTrailMin THEN "eagle_trail"
    ELSE IF s >= LoboTrailMin THEN "lobo_trail"
    ELSE "no_match"

\* the same function on a squared cosine num/den: s >= 0.90 iff s^2 >= 0.81
DetermineConfidenceLevel(x) ==
    IF 100 * x.num >= 81 * x.den THEN "eagle_trail"
    ELSE IF 100 * x.num >= 64 * x.den THEN "lobo_trail"
    ELSE "no_match"

\* variant: the candidates are left in the order of iteration
SortKeepOrder(ms, acc) == acc \o ms

\* variant: the rows of every status, newest first
RECURSIVE AllNewestFirst(_, _)
AllNewestFirst(corpus, n) ==
    IF n = 0 THEN <<>> ELSE <<n>> \o AllNewestFirst(corpus, n - 1)

\* FaceEmbedding.objects.filter(status='completed') under Meta.ordering
\* ['-created_at']: the completed rows, newest first
RECURSIVE CompletedNewestFirst(_, _)
CompletedNewestFirst(corpus, n) ==
    IF n = 0 THEN <<>>
    ELSE IF corpus[n].status = "completed"
         THEN <<n>> \o CompletedNewestFirst(corpus, n - 1)
         ELSE CompletedNewestFirst(corpus, n - 1)

\* variant: an entry goes in front of the entries of equal similarity
RECURSIVE InsertDescBeforeEqual(_, _)
InsertDescBeforeEqual(m, sorted) ==
    IF sorted = <<>> THEN <<m>>
    ELSE IF ~SimLess(m.similarity, Head(sorted).similarity)
         THEN <<m>> \o sorted
         ELSE <<Head(sorted)>> \o InsertDescBeforeEqual(m, Tail(sorted))

\* list.sort(key=similarity, reverse=True) is stable: an entry goes behind
\* every entry whose similarity is not smaller
RECURSIVE InsertDesc(_, _)
InsertDesc(m, sorted) ==
    IF sorted = <<>> THEN <<m>>
    ELSE IF SimLess(Head(sorted).similarity, m.similarity)
         THEN <<m>> \o sorted
         ELSE <<Head(sorted)>> \o InsertDesc(m, Tail(sorted))

RECURSIVE SortDesc(_, _)
SortDesc(ms, acc) ==
    IF ms = <<>> THEN acc ELSE SortDesc(Tail(ms), InsertDesc(Head(ms), acc))

\* FaceMatchingService.find_similar_pets
FindSimilarPets(corpus, query, topK) ==
    LET order == CompletedNewestFirst(corpus, Len(corpus))
        sims == [k \in 1..Len(order) |->
                   LET x == CosineSimilarity(query, corpus[order[k]].vec)
                   IN [pet |-> corpus[order[k]].pet, embedding |-> order[k],
                       similarity |-> x,
                       confidence_level |-> DetermineConfidenceLevel(x)]]
        sorted == SortDesc(sims, <<>>)
    IN SubSeq(sorted, 1, IF Len(sorted) < topK THEN Len(sorted) ELSE topK)

(* ============================ QR codes ================================= *)
\* QRCode.is_expired / is_usable / mark_as_used, read at clock value t
\* (used_at, which nothing reads, is left out)
\* variant: a code counts as expired from the very minute of its expiry
QRIsExpiredAtExpiry(c, t) == t >= c.expires_at

QRIsExpired(c, t) == t > c.expires_at

QRIsUsable(c, t) ==
    c.status = "active" /\ ~QRIsExpired(c, t) /\ c.usage_count < c.max_usage

\* variant: the status flips only once the count has passed the cap
MarkAsUsedPastCap(c, t) ==
    [c EXCEPT !.usage_count = c.usage_count + 1,
              !.status = IF c.usage_count + 1 > c.max_usage THEN "used" ELSE c.status]

MarkAsUsed(c, t) ==
    [c EXCEPT !.usage_count = c.usage_count + 1,
              !.status = IF c.usage_count + 1 >= c.max_usage THEN "used" ELSE c.status]

\* CreateQRCodeSerializer.create via QRCodeManagementView.post
NewQRCode(code, maxUsage, expireHours, t) ==
    [code |-> code, status |-> "active", expires_at |-> t + expireHours * 60,
     usage_count |-> 0, max_usage |-> maxUsage]

CreateQRCode(maxUsage, expireHours) ==
    /\ Len(qrCodes) < MaxQRCodes
    /\ qrCodes' = Append(qrCodes,
                         NewQRCode(Len(qrCodes) + 1, maxUsage, expireHours, now))
    /\ UNCHANGED <<now, regVars, qrSessions, searchImages, recognitionResults,
                   envVars, reqs>>

\* ScanQRCodeSerializer.validate_qr_code
ScanValidation(codes, code, t) ==
    IF code \notin DOMAIN codes THEN "Invalid QR code"
    ELSE IF QRIsUsable(codes[code], t) THEN "ok"
    ELSE IF QRIsExpired(codes[code], t) THEN "QR code has expired"
    ELSE IF codes[code].status # "active" THEN "QR code is not active"
    ELSE "QR code has reached maximum usage"

\* variant: the session's expiry is the scan time itself
NewQRSessionNoTTL(code, tok, t) ==
    [qr_code |-> code, session_token |-> tok, status |-> "initiated",
     expires_at |-> t, completed_at |-> Null, search_result |-> NoRow]

\* QRSearchSession.objects.create(qr_code, session_token, expires_at=now+30min)
NewQRSession(code, tok, t) ==
    [qr_code |-> code, session_token |-> tok, status |-> "initiated",
     expires_at |-> t + QRSessionTTL, completed_at |-> Null,
     search_result |-> NoRow]

\* QRScanView.post, one whole request; the serializer reads the clock at now,
\* the view at now + d
ScanQRResult(code, d) ==
    LET verdict == ScanValidation(qrCodes, code, now) IN
    IF verdict # "ok"
    THEN [qrCodes |-> qrCodes, qrSessions |-> qrSessions,
          resp |-> Resp(400, "qr_code", verdict, 0)]
    ELSE IF ~QRIsUsable(qrCodes[code], now + d)
    THEN [qrCodes |-> qrCodes, qrSessions |-> qrSessions,
          resp |-> Resp(400, "error",
                        IF QRIsExpired(qrCodes[code], now + d)
                        THEN "QR code has expired" ELSE "QR code is not active", 0)]
    ELSE [qrCodes |-> qrCodes,
          qrSessions |-> Append(qrSessions,
                                NewQRSession(code, Len(qrSessions) + 1, now + d)),
          resp |-> Resp(200, "message", "QR code scanned successfully",
                        Len(qrSessions) + 1)]

ScanQR(code, d) ==
    LET r == ScanQRResult(code, d) IN
    /\ now + d <= MaxTimeQR
    /\ ScanValidation(qrCodes, code, now) # "ok" => d = 0
    /\ Len(r.qrSessions) <= MaxQRSessions
    /\ now' = now + d
    /\ qrCodes' = r.qrCodes
    /\ qrSessions' = r.qrSessions
    /\ UNCHANGED <<regVars, searchImages, recognitionResults, envVars, reqs>>

(* ======================== QR search sessions =========================== *)
\* variant: a session never counts as expired
QRSessionIsExpiredNever(sess, t) == FALSE

QRSessionIsExpired(sess, t) == t > sess.expires_at

NoEmbedding == <<>>
QueryVectors == {<<1, 0>>, <<1, 1>>}

\* the uploaded search image: one whose face yields an embedding, one for
\* which process_search_image returns None (no face detected, no crop, no
\* embedding, or an exception it catches), or a file the serializer refuses
SearchUploads ==
    {[kind |-> "ok", vec |-> v] : v \in QueryVectors}
      \cup {[kind |-> k, vec |-> NoEmbedding] :
               k \in {"no_face", "invalid"}}

\* variant: an embedding comes out of every image
ProcessSearchImageAlways(img) == IF img.kind = "ok" THEN img.vec ELSE <<1, 0>>

\* process_search_image
ProcessSearchImage(img) == IF img.kind = "ok" THEN img.vec ELSE NoEmbedding

\* variant: the token of a session in any status is accepted
SearchValidationAnyStatus(sessions, tok, img, t) ==
    LET hit == {i \in DOMAIN sessions : sessions[i].session_token = tok}
    IN IF hit = {} THEN "Invalid session token"
       ELSE IF img.kind = "invalid" THEN "Invalid image format. Use JPEG or PNG."
       ELSE "ok"

\* QRSearchRequestSerializer: validate_session_token and validate_image
SearchValidation(sessions, tok, img, t) ==
    LET hit == {i \in DOMAIN sessions :
                  sessions[i].session_token = tok
                  /\ sessions[i].status \in {"initiated", "image_uploaded"}}
    IN IF hit = {} THEN "Invalid session token"
       ELSE IF \E i \in hit : QRSessionIsExpired(sessions[i], t)
            THEN "Search session has expired"
       ELSE IF img.kind = "invalid" THEN "Invalid image format. Use JPEG or PNG."
       ELSE "ok"

\* FaceRecognitionResult.objects.create(search_embedding=temp_embedding, ...):
\* the temporary FaceEmbedding is never saved, so the row's foreign key points
\* at nothing and the insert raises where the database enforces the key
\* (fkEnforced: whether the deployment's database does)
ResultInsertRaises == fkEnforced

\* rows of a table are told apart by their primary key, a random UUID: here
\* the session whose request inserted the row and a count within it
NewRowId(rows, sid) == <<sid, Cardinality({r \in rows : r.id[1] = sid}) + 1>>

NewRecognitionResult(id, best) ==
    [id |-> id, matched_pet |-> best.pet, matched_embedding |-> best.embedding,
     similarity_score |-> best.similarity,
     confidence_level |-> best.confidence_level, result_type |-> "search",
     rank |-> 1]

\* FaceMatchingService.create_recognition_result: one row per match, ranked
\* by enumerate(matches, 1); a create that raises is logged and skipped. The
\* create raises when search_embedding is a row that was never saved.
RECURSIVE CreateRecognitionResult(_, _, _)
CreateRecognitionResult(matches, rank, searchSaved) ==
    IF rank > Len(matches) THEN <<>>
    ELSE IF ~searchSaved /\ ResultInsertRaises
         THEN CreateRecognitionResult(matches, rank + 1, searchSaved)
         ELSE <<[NewRecognitionResult(<<0, rank>>, matches[rank])
                   EXCEPT !.rank = rank]>>
              \o CreateRecognitionResult(matches, rank + 1, searchSaved)

NewSearchImage(id, sid, st, detected, err) ==
    [id |-> id, session |-> sid, status |-> st, face_detected |-> detected,
     error_message |-> err]

\* the trail fields of the body of a successful search, from response_data
\* and QRSearchResultSerializer.to_representation: the stored level and the
\* stored score times 100 (as a square: times 10000)
SearchResponseData(result) ==
    [confidence_level |-> result.confidence_level,
     similarity_percentage |->
         [num |-> 10000 * result.similarity_score.num,
          den |-> result.similarity_score.den]]

\* QRSearchView.post, one whole request; the serializer reads the clock at
\* now, the view at now + d
QRSearchResult(tok, img, d) ==
    LET verdict == SearchValidation(qrSessions, tok, img, now)
        same == [qrCodes |-> qrCodes, qrSessions |-> qrSessions,
                 searchImages |-> searchImages,
                 recognitionResults |-> recognitionResults, data |-> NoRow]
    IN
    IF verdict # "ok"
    THEN same @@ [resp |-> Resp(400, IF verdict = "Invalid image format. Use JPEG or PNG."
                                     THEN "image" ELSE "session_token", verdict, 0)]
    ELSE
    LET sid == CHOOSE i \in DOMAIN qrSessions : qrSessions[i].session_token = tok
        sess == qrSessions[sid]
        query == ProcessSearchImage(img)
        matches == FindSimilarPets(faceEmbeddings, query, TopK)
        failed == [qrSessions EXCEPT ![sid].status = "failed"]
        imgId == NewRowId(searchImages, sid)
        resId == NewRowId(recognitionResults, sid)
    IN
    IF QRSessionIsExpired(sess, now + d)
    THEN [qrSessions |-> [qrSessions EXCEPT ![sid].status = "expired"],
          resp |-> Resp(400, "error", "Search session has expired", tok)] @@ same
    ELSE IF query = NoEmbedding
    THEN [qrSessions |-> failed,
          searchImages |-> searchImages \cup
              {NewSearchImage(imgId, sid, "failed", FALSE, "No pet face detected")},
          resp |-> Resp(400, "error",
                        "No pet face detected in the uploaded image", tok)] @@ same
    ELSE IF matches # <<>> /\ ResultInsertRaises
    THEN [qrSessions |-> failed,
          searchImages |-> searchImages \cup
              {NewSearchImage(imgId, sid, "failed", TRUE, "IntegrityError")},
          resp |-> Resp(500, "error", "Error processing search request", tok)] @@ same
    ELSE [qrCodes |-> [qrCodes EXCEPT ![sess.qr_code] = MarkAsUsed(@, now + d)],
          qrSessions |-> [qrSessions EXCEPT
              ![sid].search_result =
                  IF matches # <<>> THEN resId ELSE NoRow,
              ![sid].status = "completed",
              ![sid].completed_at = now + d],
          searchImages |-> searchImages \cup
              {NewSearchImage(imgId, sid, "completed", TRUE, "")},
          recognitionResults |->
              IF matches # <<>>
              THEN recognitionResults \cup {NewRecognitionResult(resId, matches[1])}
              ELSE recognitionResults,
          data |-> IF matches # <<>>
                   THEN SearchResponseData(NewRecognitionResult(resId, matches[1]))
                   ELSE NoRow,
          resp |-> Resp(200, "message", "", tok)]

QRSearch(tok, img, d) ==
    LET r == QRSearchResult(tok, img, d) IN
    /\ now + d <= MaxTimeQR
    /\ SearchValidation(qrSessions, tok, img, now) # "ok" => d = 0
    /\ now' = now + d
    /\ qrCodes' = r.qrCodes
    /\ qrSessions' = r.qrSessions
    /\ searchImages' = r.searchImages
    /\ recognitionResults' = r.recognitionResults
    /\ UNCHANGED <<regVars, envVars, reqs>>

(* ------------- image search, requests running side by side ----------- *)
\* variant: the failure is not written to the session
FailedSessionUnsaved(row) == row

\* session.status = 'failed'; session.save() on the row the request holds
FailedSession(row) == [row EXCEPT !.status = "failed"]

\* search_image.save() on the row the request created
SaveSearchImage(rows, image) ==
    {x \in rows : x.id # image.id} \cup {image}

\* an upload up to the end of the serializer's validation
SearchValidate(r, tok, img) ==
    /\ reqs[r].pc = "idle"
    /\ SearchValidation(qrSessions, tok, img, now) = "ok"
    /\ reqs' = [reqs EXCEPT ![r] = [pc |-> "validated", tok |-> tok, img |-> img]]
    /\ UNCHANGED <<now, regVars, qrVars, envVars>>

\* the view from its get of the session to the create of the search image:
\* the request holds the session row as it is now, and saves it as 'expired'
\* or as 'processing'
SearchBegin(r) ==
    LET sid == CHOOSE i \in DOMAIN qrSessions :
                   qrSessions[i].session_token = reqs[r].tok
        sess == qrSessions[sid]
        imgId == NewRowId(searchImages, sid)
    IN
    /\ reqs[r].pc = "validated"
    /\ IF QRSessionIsExpired(sess, now)
       THEN /\ qrSessions' = [qrSessions EXCEPT ![sid].status = "expired"]
            /\ reqs' = [reqs EXCEPT ![r] = IdleReq]
            /\ UNCHANGED searchImages
       ELSE /\ qrSessions' = [qrSessions EXCEPT ![sid].status = "processing"]
            /\ searchImages' = searchImages \cup
                   {NewSearchImage(imgId, sid, "pending", FALSE, "")}
            /\ reqs' = [reqs EXCEPT ![r] =
                          [pc |-> "processing", sid |-> sid, img |-> reqs[r].img,
                           image |-> imgId,
                           seen |-> [sess EXCEPT !.status = "processing"]]]
    /\ UNCHANGED <<now, regVars, qrCodes, recognitionResults, envVars>>

\* the inner try up to the load of session.qr_code: either the request ends
\* with its session saved as 'failed', or the result is created and the
\* request holds the code row as it is now
SearchProcess(r) ==
    LET sid == reqs[r].sid
        seen == reqs[r].seen
        query == ProcessSearchImage(reqs[r].img)
        matches == FindSimilarPets(faceEmbeddings, query, TopK)
        resId == NewRowId(recognitionResults, sid)
        failed == [qrSessions EXCEPT ![sid] = FailedSession(seen)]
    IN
    /\ reqs[r].pc = "processing"
    /\ IF query = NoEmbedding
       THEN /\ qrSessions' = failed
            /\ searchImages' = SaveSearchImage(searchImages,
                   NewSearchImage(reqs[r].image, sid, "failed", FALSE,
                                  "No pet face detected"))
            /\ reqs' = [reqs EXCEPT ![r] = IdleReq]
            /\ UNCHANGED recognitionResults
       ELSE IF matches # <<>> /\ ResultInsertRaises
       THEN /\ qrSessions' = failed
            /\ searchImages' = SaveSearchImage(searchImages,
                   NewSearchImage(reqs[r].image, sid, "failed", TRUE,
                                  "IntegrityError"))
            /\ reqs' = [reqs EXCEPT ![r] = IdleReq]
            /\ UNCHANGED recognitionResults
       ELSE /\ searchImages' = SaveSearchImage(searchImages,
                   NewSearchImage(reqs[r].image, sid, "completed", TRUE, ""))
            /\ recognitionResults' =
                   IF matches # <<>>
                   THEN recognitionResults \cup
                          {NewRecognitionResult(resId, matches[1])}
                   ELSE recognitionResults
            /\ reqs' = [reqs EXCEPT ![r] =
                          [pc |-> "loaded", sid |-> sid,
                           seen |-> [seen EXCEPT !.search_result =
                                        IF matches # <<>> THEN resId ELSE NoRow],
                           code |-> qrCodes[seen.qr_code]]]
            /\ UNCHANGED qrSessions
    /\ UNCHANGED <<now, regVars, qrCodes, envVars>>

\* the rest of the request: mark_as_used saves the code row held with its
\* count raised, and the session row held is saved as 'completed'
SearchFinish(r) ==
    LET sid == reqs[r].sid
        seen == reqs[r].seen
    IN
    /\ reqs[r].pc = "loaded"
    /\ qrCodes' = [qrCodes EXCEPT ![seen.qr_code] = MarkAsUsed(reqs[r].code, now)]
    /\ qrSessions' = [qrSessions EXCEPT ![sid] =
                         [seen EXCEPT !.status = "completed",
                                      !.completed_at = now]]
    /\ reqs' = [reqs EXCEPT ![r] = IdleReq]
    /\ UNCHANGED <<now, regVars, searchImages, recognitionResults, envVars>>

(* ====================== initial state and steps ======================== *)
\* the stored Templates a search ranks against (newest last): none, or two
\* completed ones with one still pending between them
CompletedTemplate == [pet |-> 1, status |-> "completed", vec |-> <<1, 0>>]
PendingTemplate == [pet |-> 2, status |-> "pending", vec |-> <<1, 1>>]
SecondTemplate == [pet |-> 2, status |-> "completed", vec |-> <<1, 2>>]

Corpora == {<<>>, <<CompletedTemplate, PendingTemplate, SecondTemplate>>}

InitTables ==
    /\ now = 0
    /\ petStatus = [p \in Pets |-> "pending"]
    /\ regSessions = <<>>
    /\ petImages = <<>>
    /\ jobQueue = <<>>
    /\ qrCodes = <<>>
    /\ qrSessions = <<>>
    /\ searchImages = {}
    /\ recognitionResults = {}
    /\ reqs = [r \in 1..MaxReqs |-> IdleReq]

\* no service function is being called on its own: args holds the arguments
\* of such a call and ret the values it has returned
NoCall == args = <<>> /\ ret = <<>> /\ embeddingJobs = <<>>

\* registration: an empty Template table, which the registration handlers
\* never read
Init ==
    /\ InitTables
    /\ faceEmbeddings = <<>>
    /\ fkEnforced = TRUE
    /\ NoCall

InitQR ==
    /\ InitTables
    /\ faceEmbeddings \in Corpora
    /\ fkEnforced \in BOOLEAN
    /\ NoCall

Delays == {0, TickMinutes}
RegTokens == 0..MaxRegSessions
QRTokens == 0..MaxQRSessions

\* the inputs of a request that its validation refuses at the token play no
\* part in the answer, so one representative of them is drawn
StartFaceIdStep == \E p \in Pets : StartFaceId(p)
UploadImagesStep ==
    \E tok \in RegTokens :
        IF UploadValidation(regSessions, tok, <<>>, now) \in
              {"Invalid session token", "Session has expired"}
        THEN UploadImages(tok, <<>>, 0)
        ELSE \E images \in ImageBatches, d \in Delays : UploadImages(tok, images, d)
CompleteFaceIdStep ==
    \E tok \in RegTokens :
        IF CompleteValidation(regSessions, tok) # "ok"
        THEN CompleteFaceId(1, tok, TRUE)
        ELSE \E p \in Pets, success \in BOOLEAN : CompleteFaceId(p, tok, success)

CreateQRCodeStep ==
    \E m \in 1..MaxUsageCap : CreateQRCode(m, ExpireHoursMin)
ScanQRStep ==
    \E code \in 0..MaxQRCodes :
        IF ScanValidation(qrCodes, code, now) # "ok"
        THEN ScanQR(code, 0)
        ELSE \E d \in Delays : ScanQR(code, d)
QRSearchStep ==
    \E tok \in QRTokens :
        IF SearchValidation(qrSessions, tok, [kind |-> "no_face", vec |-> NoEmbedding], now)
              # "ok"
        THEN QRSearch(tok, [kind |-> "no_face", vec |-> NoEmbedding], 0)
        ELSE \E img \in SearchUploads, d \in Delays : QRSearch(tok, img, d)

\* requests handled one at a time
Next == StartFaceIdStep \/ UploadImagesStep \/ CompleteFaceIdStep \/ Tick(MaxTime)

Spec == Init /\ [][Next]_vars

StartReadStep == \E r \in 1..MaxReqs, p \in Pets : StartRead(r, p)
StartFinishStep == \E r \in 1..MaxReqs : StartFinish(r)

\* start_face_id requests running side by side
NextConc == StartReadStep \/ StartFinishStep \/ Tick(MaxTime)

SpecConc == Init /\ [][NextConc]_vars

IntakeReadStep ==
    \E r \in 1..MaxReqs, tok \in RegTokens, images \in ImageBatches :
        IntakeRead(r, tok, images)
IntakeFinishStep == \E r \in 1..MaxReqs : IntakeFinish(r)

\* image uploads running side by side
NextIntake ==
    StartFaceIdStep \/ IntakeReadStep \/ IntakeFinishStep \/ Tick(MaxTime)

SpecIntake == Init /\ [][NextIntake]_vars

\* a code created and scanned at minute 0, one 'initiated' session per scan
\* (a session no search is made on stands for a scan not made)
InitQRConc ==
    /\ now = 0
    /\ petStatus = [p \in Pets |-> "pending"]
    /\ regSessions = <<>>
    /\ petImages = <<>>
    /\ jobQueue = <<>>
    /\ \E maxUsage \in 1..MaxUsageCap :
          /\ qrCodes = <<NewQRCode(1, maxUsage, ExpireHoursMin, 0)>>
          /\ qrSessions = [k \in 1..MaxQRSessions |-> NewQRSession(1, k, 0)]
    /\ searchImages = {}
    /\ recognitionResults = {}
    /\ reqs = [r \in 1..MaxReqs |-> IdleReq]
    /\ faceEmbeddings \in Corpora
    /\ fkEnforced \in BOOLEAN
    /\ NoCall

\* requests are interchangeable: a new one takes the first free place; so
\* are the sessions, all scanned from one code at one time: a search goes to
\* the first session not yet searched on, or to one already searched on. The
\* searches that got past validation are counted by the rows they created
SearchValidateStep ==
    \E r \in 1..MaxReqs, tok \in QRTokens, img \in SearchUploads :
        /\ \A q \in 1..(r - 1) : reqs[q].pc # "idle"
        /\ \A k \in 1..(tok - 1) :
              \/ qrSessions[k].status # "initiated"
              \/ \E q \in 1..MaxReqs :
                    reqs[q].pc = "validated" /\ reqs[q].tok = k
        /\ Cardinality(searchImages)
             + Cardinality({q \in 1..MaxReqs : reqs[q].pc = "validated"})
               < MaxSearches
        /\ SearchValidate(r, tok, img)
SearchBeginStep == \E r \in 1..MaxReqs : SearchBegin(r)
SearchProcessStep == \E r \in 1..MaxReqs : SearchProcess(r)
SearchFinishStep == \E r \in 1..MaxReqs : SearchFinish(r)

\* image searches running side by side
NextQRConc ==
    \/ SearchValidateStep
    \/ SearchBeginStep
    \/ SearchProcessStep
    \/ SearchFinishStep
    \/ Tick(MaxTime)

SpecQRConc == InitQRConc /\ [][NextQRConc]_vars

NextQR == CreateQRCodeStep \/ ScanQRStep \/ QRSearchStep \/ Tick(MaxTimeQR)

SpecQR == InitQR /\ [][NextQR]_vars

\* determine_confidence_level called on its own, on every score from 0.0000
\* to 1.0000
Scores == 0..MaxScore

InitLevel ==
    /\ InitTables
    /\ faceEmbeddings = <<>>
    /\ fkEnforced = TRUE
    /\ args \in [score : Scores]
    /\ ret = <<>>
    /\ embeddingJobs = <<>>

DetermineLevel ==
    /\ ret = <<>>
    /\ ret' = <<ConfidenceLevelOfScore(args.score)>>
    /\ UNCHANGED <<now, regVars, qrVars, faceEmbeddings, fkEnforced, reqs, args, embeddingJobs>>

NextLevel == DetermineLevel

SpecLevel == InitLevel /\ [][NextLevel]_vars

\* find_similar_pets and create_recognition_result called on their own, on
\* every Template table of up to MaxTemplates rows (row n is the n-th created)
StoredVectors == {<<1, 0>>, <<0, 1>>, <<1, 1>>, <<1>>}
Templates == [pet : Pets, status : {"completed", "pending"}, vec : StoredVectors]
TemplateTables == UNION {[1..n -> Templates] : n \in 0..MaxTemplates}

InitMatch ==
    /\ InitTables
    /\ faceEmbeddings \in TemplateTables
    /\ fkEnforced = TRUE
    /\ args \in [query : QueryVectors, top_k : 1..MaxTopK]
    /\ ret = <<>>
    /\ embeddingJobs = <<>>

FindSimilar ==
    /\ ret = <<>>
    /\ ret' = <<FindSimilarPets(faceEmbeddings, args.query, args.top_k)>>
    /\ UNCHANGED <<now, regVars, qrVars, faceEmbeddings, fkEnforced, reqs, args, embeddingJobs>>

CreateResults(searchSaved) ==
    /\ Len(ret) = 1
    /\ LET created == CreateRecognitionResult(ret[1], 1, searchSaved)
       IN /\ recognitionResults' =
                recognitionResults \cup {created[k] : k \in DOMAIN created}
          /\ ret' = Append(ret, created)
    /\ UNCHANGED <<now, regVars, qrCodes, qrSessions, searchImages,
                   faceEmbeddings, fkEnforced, reqs, args, embeddingJobs>>

CreateResultsStep == \E searchSaved \in BOOLEAN : CreateResults(searchSaved)

NextMatch == FindSimilar \/ CreateResultsStep

SpecMatch == InitMatch /\ [][NextMatch]_vars

\* generate_pet_embeddings called on its own. Each image of the list either
\* yields an embedding or fails at one step: no face detected, no crop, no
\* embedding, or an exception inside the loop.
ImageOutcomes ==
    [kind : {"ok"}, vec : {<<1, 0>>, <<0, 1>>}]
    \cup [kind : {"no_face", "no_crop", "no_embedding", "raise"}, vec : {NoEmbedding}]
ImageLists == UNION {[1..n -> ImageOutcomes] : n \in 0..MaxSourceImages}

\* generate_embedding of the face crop of an image, None (<<>>) for an image
\* that fails at some step
ImageEmbedding(image) == image.vec

\* the sum by component of a list of vectors, taken in list order
RECURSIVE SumVectors(_)
SumVectors(vs) ==
    IF Len(vs) = 1 THEN vs[1]
    ELSE [k \in DOMAIN vs[1] |-> vs[1][k] + SumVectors(Tail(vs))[k]]

\* np.mean(all_embeddings, axis=0): each component is the sum over the list
\* divided by its length, kept as the fraction num/den
MeanVector(vs) ==
    [k \in DOMAIN vs[1] |-> [num |-> SumVectors(vs)[k], den |-> Len(vs)]]

\* embedding_vector = models.JSONField() has no default and is not nullable:
\* a row created without it is refused by the database
TemplateInsertRaises(row) == row.vec = NoEmbedding

\* FaceEmbeddingService.generate_pet_embeddings: the table afterwards and the
\* value returned (<<>> for None, else the row)
GeneratePetEmbeddingsResult(pet, outcomes) ==
    LET all_embeddings == SelectSeq([k \in DOMAIN outcomes |->
                                        ImageEmbedding(outcomes[k])],
                                    LAMBDA e : e # NoEmbedding)
        successful_images == Len(all_embeddings)
        none == [faceEmbeddings |-> faceEmbeddings, returned |-> <<>>]
    IN
    IF outcomes = <<>> THEN none
    ELSE IF all_embeddings = <<>> THEN none
    ELSE LET created == [pet |-> pet, status |-> "completed", vec |-> NoEmbedding,
                         source_images_count |-> successful_images]
             saved == [created EXCEPT !.vec = MeanVector(all_embeddings)]
         IN IF TemplateInsertRaises(created) THEN none
            ELSE [faceEmbeddings |-> Append(faceEmbeddings, saved),
                  returned |-> <<saved>>]

InitEmbed ==
    /\ InitTables
    /\ faceEmbeddings = <<>>
    /\ fkEnforced = TRUE
    /\ args \in [pet : Pets, outcomes : ImageLists]
    /\ ret = <<>>
    /\ embeddingJobs = <<>>

GeneratePetEmbeddings ==
    /\ ret = <<>>
    /\ LET r == GeneratePetEmbeddingsResult(args.pet, args.outcomes)
       IN /\ faceEmbeddings' = r.faceEmbeddings
          /\ ret' = <<r.returned>>
    /\ UNCHANGED <<now, regVars, qrVars, fkEnforced, reqs, args, embeddingJobs>>

NextEmbed == GeneratePetEmbeddings

SpecEmbed == InitEmbed /\ [][NextEmbed]_vars

\* the generate_pet_embeddings view for one pet of the request: the Template
\* table afterwards and the entries appended to results. goodImages are the
\* pet's images of quality 'good', in sequence order.
GenerateEmbeddingsViewResult(pet, force_regenerate, goodImages) ==
    LET existing == {i \in DOMAIN faceEmbeddings :
                        /\ faceEmbeddings[i].pet = pet
                        /\ faceEmbeddings[i].status = "completed"}
        Same(st) == [faceEmbeddings |-> faceEmbeddings,
                     results |-> <<[pet_id |-> pet, status |-> st]>>]
    IN
    IF petStatus[pet] # "completed"
    THEN [faceEmbeddings |-> faceEmbeddings, results |-> <<>>]
    ELSE IF existing # {} /\ ~force_regenerate THEN Same("already_exists")
    ELSE IF goodImages = <<>> THEN Same("no_images")
    ELSE LET g == GeneratePetEmbeddingsResult(pet, goodImages)
         IN IF g.returned # <<>>
            THEN [faceEmbeddings |-> g.faceEmbeddings,
                  results |-> <<[pet_id |-> pet, status |-> "success"]>>]
            ELSE [faceEmbeddings |-> g.faceEmbeddings,
                  results |-> <<[pet_id |-> pet, status |-> "failed"]>>]

\* Templates stored before the request, for pets of either registration state
StoredTemplates ==
    [pet : Pets, status : {"completed", "failed"}, vec : {<<1, 0>>},
     source_images_count : {1}]
StoredTables == UNION {[1..n -> StoredTemplates] : n \in 0..MaxStored}

InitGenerate ==
    /\ now = 0
    /\ petStatus = [p \in Pets |-> IF p = 1 THEN "completed" ELSE "pending"]
    /\ regSessions = <<>> /\ petImages = <<>> /\ jobQueue = <<>>
    /\ qrCodes = <<>> /\ qrSessions = <<>>
    /\ searchImages = {} /\ recognitionResults = {}
    /\ reqs = [r \in 1..MaxReqs |-> IdleReq]
    /\ faceEmbeddings \in StoredTables
    /\ fkEnforced = TRUE
    /\ args \in [pet : Pets, force_regenerate : BOOLEAN, images : ImageLists]
    /\ ret = <<>>
    /\ embeddingJobs = <<>>

GenerateEmbeddingsView ==
    /\ ret = <<>>
    /\ LET r == GenerateEmbeddingsViewResult(args.pet, args.force_regenerate,
                                             args.images)
       IN /\ faceEmbeddings' = r.faceEmbeddings
          /\ ret' = <<r.results>>
    /\ UNCHANGED <<now, regVars, qrVars, fkEnforced, reqs, args, embeddingJobs>>

NextGenerate == GenerateEmbeddingsView

SpecGenerate == InitGenerate /\ [][NextGenerate]_vars

\* calculate_cosine_similarity called on its own, on every pair of vectors of
\* one or two integer components up to MaxCoord in absolute value
Coords == (0 - MaxCoord)..MaxCoord
Vectors == [1..1 -> Coords] \cup [1..2 -> Coords]

InitCosine ==
    /\ InitTables
    /\ faceEmbeddings = <<>>
    /\ fkEnforced = TRUE
    /\ args \in [vec1 : Vectors, vec2 : Vectors]
    /\ ret = <<>>
    /\ embeddingJobs = <<>>

CalculateCosineSimilarity ==
    /\ ret = <<>>
    /\ ret' = <<CosineSimilarity(args.vec1, args.vec2)>>
    /\ UNCHANGED <<now, regVars, qrVars, faceEmbeddings, fkEnforced, reqs, args, embeddingJobs>>

\* the model's method called on the same pair, after the service function
CalculateSimilarityCall ==
    /\ Len(ret) = 1
    /\ ret' = Append(ret, CalculateSimilarity(args.vec1, args.vec2))
    /\ UNCHANGED <<now, regVars, qrVars, faceEmbeddings, fkEnforced, reqs, args, embeddingJobs>>

NextCosine == CalculateCosineSimilarity \/ CalculateSimilarityCall

SpecCosine == InitCosine /\ [][NextCosine]_vars

\* the embedding jobs. EmbeddingProcessingJob gives the fields and their
\* defaults; the task that creates and runs the jobs is in
\* face_recognition/tasks.py, which is not part of the sources, and is taken
\* from the description of the job tracker: a total failure of the template
\* build raises retry_count, and the job fails for good once retry_count has
\* reached max_retries.
\* variant: a job that allows no retry at all
NewEmbeddingJobNoRetry(p, sid) ==
    [pet |-> p, session |-> sid, status |-> "pending", retry_count |-> 0,
     max_retries |-> 0]

NewEmbeddingJob(p, sid) ==
    [pet |-> p, session |-> sid, status |-> "pending", retry_count |-> 0,
     max_retries |-> MaxRetries]

StartJobResult(j) ==
    IF embeddingJobs[j].status = "pending"
    THEN [embeddingJobs EXCEPT ![j].status = "running"]
    ELSE embeddingJobs

BuildSucceedsResult(j) ==
    IF embeddingJobs[j].status = "running"
    THEN [embeddingJobs EXCEPT ![j].status = "completed"]
    ELSE embeddingJobs

BuildFailsResult(j) ==
    LET job == embeddingJobs[j] IN
    IF job.status # "running" THEN embeddingJobs
    ELSE [embeddingJobs EXCEPT
            ![j].retry_count = job.retry_count + 1,
            ![j].status = IF job.retry_count + 1 >= job.max_retries
                          THEN "failed" ELSE "pending"]

InitJob ==
    /\ InitTables
    /\ faceEmbeddings = <<>>
    /\ fkEnforced = TRUE
    /\ args = <<>>
    /\ ret = <<>>
    /\ embeddingJobs = <<>>

JobFrame == UNCHANGED <<now, regVars, qrVars, faceEmbeddings, fkEnforced, reqs, args, ret>>

CreateJob(p) ==
    /\ Len(embeddingJobs) < MaxJobs
    /\ embeddingJobs' = Append(embeddingJobs,
                               NewEmbeddingJob(p, Len(embeddingJobs) + 1))
    /\ JobFrame

StartJob(j) ==
    /\ embeddingJobs[j].status = "pending"
    /\ embeddingJobs' = StartJobResult(j)
    /\ JobFrame

BuildSucceeds(j) ==
    /\ embeddingJobs[j].status = "running"
    /\ embeddingJobs' = BuildSucceedsResult(j)
    /\ JobFrame

BuildFails(j) ==
    /\ embeddingJobs[j].status = "running"
    /\ embeddingJobs' = BuildFailsResult(j)
    /\ JobFrame

CreateJobStep == \E p \in Pets : CreateJob(p)
StartJobStep == \E j \in DOMAIN embeddingJobs : StartJob(j)
BuildSucceedsStep == \E j \in DOMAIN embeddingJobs : BuildSucceeds(j)
BuildFailsStep == \E j \in DOMAIN embeddingJobs : BuildFails(j)

NextJob == CreateJobStep \/ StartJobStep \/ BuildSucceedsStep \/ BuildFailsStep

SpecJob == InitJob /\ [][NextJob]_vars

\* SimpleFaceIdService.generate_project_id. A string is the sequence of its
\* characters.
Digits == {"0", "1", "2", "3", "4", "5", "6", "7", "8", "9"}
LowerLetters == {"f", "l", "u", "y"}
UpperLetters == {"F", "L", "U", "Y"}

\* str.isdigit, str.isalpha and str.lower on one character
IsDigit(ch) == ch \in Digits
IsAlpha(ch) == ch \in LowerLetters \cup UpperLetters
LowerChar(ch) ==
    CASE ch = "F" -> "f" [] ch = "L" -> "l" [] ch = "U" -> "u" [] ch = "Y" -> "y"
      [] OTHER -> ch

\* name.lower()
Lower(str) == [k \in DOMAIN str |-> LowerChar(str[k])]

\* str[:n]
Take(str, n) == SubSeq(str, 1, IF Len(str) < n THEN Len(str) ELSE n)

\* variant: str.rjust, the fill characters in front
Rjust(str, n, fill) ==
    IF Len(str) >= n THEN str ELSE [k \in 1..(n - Len(str)) |-> fill] \o str

\* str.ljust(n, fill)
Ljust(str, n, fill) ==
    IF Len(str) >= n THEN str ELSE str \o [k \in 1..(n - Len(str)) |-> fill]

GenerateProjectId(name, input_id) ==
    LET digits == Take(SelectSeq(input_id, IsDigit), 6)
        letters == Take(SelectSeq(Lower(name), IsAlpha), 3)
    IN (IF Len(digits) < 6 THEN Ljust(digits, 6, "0") ELSE digits)
       \o (IF Len(letters) < 3 THEN Ljust(letters, 3, "x") ELSE letters)

\* the identifiers and names the function is called on: every string of a few
\* characters of each kind, and the pair of the documented example
IdStrings == UNION {[1..n -> {"1", "2", "-"}] : n \in 0..MaxIdLen}
NameStrings == UNION {[1..n -> {"F", "u", "-"}] : n \in 0..MaxNameLen}
ExampleName == <<"F", "l", "u", "f", "f", "y">>
ExampleId == <<"1", "2", "3", "4", "5", "6", "7", "8", "9">>

InitProject ==
    /\ InitTables
    /\ faceEmbeddings = <<>>
    /\ fkEnforced = TRUE
    /\ args \in [name : {ExampleName}, input_id : IdStrings \cup {ExampleId}]
                 \cup [name : NameStrings, input_id : {ExampleId, <<"1", "-">>}]
    /\ ret = <<>>
    /\ embeddingJobs = <<>>

GenerateProject ==
    /\ ret = <<>>
    /\ ret' = <<GenerateProjectId(args.name, args.input_id)>>
    /\ UNCHANGED <<now, regVars, qrVars, faceEmbeddings, fkEnforced, reqs, args,
                   embeddingJobs>>

NextProject == GenerateProject

SpecProject == InitProject /\ [][NextProject]_vars

(* ============== properties of the registration sessions ================ *)
RegTerminal == {"completed", "failed", "expired"}

TokenOf(sessions, i) == sessions[i].session_token

\* C1: with requests handled one at a time (Spec), after any sequence of
\* start_face_id, image-upload and complete_face_id requests every pet has at
\* most one PetRegistrationSession whose status is 'active'.
SingleActiveSessionPerPet ==
    \A p \in Pets :
        Cardinality({i \in DOMAIN regSessions :
                        regSessions[i].pet = p /\ regSessions[i].status = "active"}) <= 1

\* C1, its case: a pet whose earlier session has ended and whose later
\* session, started after it, is the active one
SingleActiveSessionPerPetWitness ==
    \E i, j \in DOMAIN regSessions :
        /\ i < j
        /\ regSessions[i].pet = regSessions[j].pet
        /\ regSessions[i].status \in RegTerminal
        /\ regSessions[j].status = "active"

\* C2: when two start_face_id requests for the same pet interleave (SpecConc),
\* both reading the pet's active sessions before either creates its session,
\* no state is reached in which the pet has two sessions with status 'active'.
InterleavedStartsKeepOneActive ==
    \A i, j \in DOMAIN regSessions :
        (regSessions[i].pet = regSessions[j].pet
           /\ regSessions[i].status = "active" /\ regSessions[j].status = "active")
        => i = j

\* C8: start_face_id for a pet that has an active session whose 30-minute TTL
\* has not elapsed is rejected with an error that carries that session's
\* token; no session is created, and the sessions and the pet's
\* registration_status are left as they were.
StartRejectedWhileActive ==
    \A i \in DOMAIN regSessions :
        (regSessions[i].status = "active"
           /\ now <= regSessions[i].start_time + SessionTTL)
        => LET r == StartFaceIdResult(regSessions[i].pet) IN
           /\ r.resp.code = 400
           /\ r.resp.token = TokenOf(regSessions, i)
           /\ r.regSessions = regSessions
           /\ r.petStatus = petStatus

\* C8, its case: a pet holds an active session, started earlier and still
\* within its TTL, and a start request for it is answered 400
StartRejectedWhileActiveWitness ==
    \E i \in DOMAIN regSessions :
        /\ regSessions[i].status = "active"
        /\ regSessions[i].start_time < now
        /\ now <= regSessions[i].start_time + SessionTTL
        /\ petStatus[regSessions[i].pet] = "processing"
        /\ StartFaceIdResult(regSessions[i].pet).resp.code = 400

\* C9: start_face_id for a pet whose active session is past its 30-minute TTL
\* succeeds: the stale session's status becomes 'expired', exactly one new
\* session is created, 'active', with a fresh token and actual_images_count 0,
\* and the pet's registration_status becomes 'processing'.
StartReplacesStaleSession ==
    \A p \in Pets :
        LET act == {i \in DOMAIN regSessions :
                       regSessions[i].pet = p /\ regSessions[i].status = "active"}
            n == Len(regSessions)
            r == StartFaceIdResult(p)
        IN (act # {} /\ \A i \in act : now > regSessions[i].start_time + SessionTTL)
           => /\ r.resp.code = 200
              /\ Len(r.regSessions) = n + 1
              /\ \A i \in 1..n :
                    r.regSessions[i] =
                       IF i \in act THEN [regSessions[i] EXCEPT !.status = "expired"]
                       ELSE regSessions[i]
              /\ r.regSessions[n + 1].pet = p
              /\ r.regSessions[n + 1].status = "active"
              /\ r.regSessions[n + 1].actual_images_count = 0
              /\ \A i \in 1..n : TokenOf(r.regSessions, n + 1) # TokenOf(regSessions, i)
              /\ r.resp.token = TokenOf(r.regSessions, n + 1)
              /\ r.petStatus = [petStatus EXCEPT ![p] = "processing"]

\* C9, its case: a session that went stale stands 'expired', and the pet's
\* next session, started after the first one's TTL, is active
StartReplacesStaleSessionWitness ==
    \E i, j \in DOMAIN regSessions :
        /\ regSessions[i].pet = regSessions[j].pet
        /\ regSessions[i].status = "expired"
        /\ regSessions[j].status = "active"
        /\ regSessions[j].start_time > regSessions[i].start_time + SessionTTL
        /\ regSessions[j].actual_images_count = 0
        /\ petStatus[regSessions[j].pet] = "processing"

\* C10: an image-intake request on a registration session whose status is
\* 'active' but whose 30-minute TTL has elapsed is rejected, appends no image,
\* and leaves the session with stored status 'expired'.
StaleIntakeExpiresSession ==
    \A i \in DOMAIN regSessions :
        (regSessions[i].status = "active"
           /\ now > regSessions[i].start_time + SessionTTL)
        => \A images \in ImageBatches \ {<<>>} :
              LET r == UploadImagesResult(TokenOf(regSessions, i), images, 0) IN
              /\ r.resp.code = 400
              /\ r.petImages = petImages
              /\ r.regSessions[i].status = "expired"

(* ================ properties of the QR search sessions ================= *)
QRTerminal == {"completed", "failed", "expired"}

CompletedCount(c) ==
    Cardinality({i \in DOMAIN qrSessions :
                    qrSessions[i].qr_code = c /\ qrSessions[i].status = "completed"})

\* C3: a QRCode with max_usage = n has usage_count equal to the number of its
\* completed QRSearchSessions; its status is 'active' while that number is
\* below n and 'used' from the n-th completion on; and from then on every
\* scan of it is rejected and creates no QRSearchSession.
QRCodeUsedAtCap ==
    \A c \in DOMAIN qrCodes :
        /\ qrCodes[c].usage_count = CompletedCount(c)
        /\ CompletedCount(c) < qrCodes[c].max_usage => qrCodes[c].status = "active"
        /\ CompletedCount(c) >= qrCodes[c].max_usage =>
              /\ qrCodes[c].status = "used"
              /\ ScanQRResult(c, 0).resp.code = 400
              /\ ScanQRResult(c, 0).qrSessions = qrSessions

\* C3, its case: a QRCode with max_usage 2 stands 'used' after the second of
\* its two sessions completed, and a further scan is answered 400
QRCodeUsedAtCapWitness ==
    \E c \in DOMAIN qrCodes :
        /\ qrCodes[c].max_usage = 2
        /\ CompletedCount(c) = 2
        /\ qrCodes[c].usage_count = 2
        /\ qrCodes[c].status = "used"
        /\ now <= qrCodes[c].expires_at
        /\ ScanQRResult(c, 0).resp.code = 400

\* C4: an image upload addressed to a QRSearchSession whose status is
\* 'completed', 'failed' or 'expired' is rejected and changes neither that
\* session (its status, its linked result), nor any QRCode's usage_count, nor
\* the stored images and results.
TerminalSessionTakesNoUpload ==
    \A i \in DOMAIN qrSessions :
        qrSessions[i].status \in QRTerminal
        => \A img \in SearchUploads :
              LET r == QRSearchResult(TokenOf(qrSessions, i), img, 0) IN
              /\ r.resp.code = 400
              /\ r.qrSessions = qrSessions
              /\ r.qrCodes = qrCodes
              /\ r.searchImages = searchImages
              /\ r.recognitionResults = recognitionResults

\* C4, its case: sessions stand in each terminal status reached by a search,
\* one of them completed with its QRCode counted, before its own expiry
TerminalSessionTakesNoUploadWitness ==
    \E i, j \in DOMAIN qrSessions :
        /\ qrSessions[i].status = "completed"
        /\ qrSessions[j].status = "failed"
        /\ now <= qrSessions[i].expires_at
        /\ now <= qrSessions[j].expires_at
        /\ qrCodes[qrSessions[i].qr_code].usage_count = 1
        /\ QRSearchResult(TokenOf(qrSessions, i), [kind |-> "ok", vec |-> <<1, 0>>],
                          0).resp.code = 400

\* C5: when the uploaded image yields an embedding on a non-expired
\* 'initiated' QRSearchSession, the request ends with the session 'completed'
\* with completed_at set, the QRCode's usage_count raised by exactly 1 (its
\* status 'used' if the cap is reached), and a result linked to the session
\* if and only if the ranking returned at least one candidate.
EmbeddingUploadCompletesSession ==
    \A i \in DOMAIN qrSessions :
        (qrSessions[i].status = "initiated" /\ now <= qrSessions[i].expires_at)
        => \A v \in QueryVectors :
              LET c == qrSessions[i].qr_code
                  r == QRSearchResult(TokenOf(qrSessions, i),
                                      [kind |-> "ok", vec |-> v], 0)
              IN
              /\ r.qrSessions[i].status = "completed"
              /\ r.qrSessions[i].completed_at # Null
              /\ r.qrCodes[c].usage_count = qrCodes[c].usage_count + 1
              /\ r.qrCodes[c].usage_count >= r.qrCodes[c].max_usage
                    => r.qrCodes[c].status = "used"
              /\ r.qrSessions[i].search_result # NoRow
                    <=> FindSimilarPets(faceEmbeddings, v, TopK) # <<>>

\* C6: when the uploaded image yields no usable face on a non-expired
\* 'initiated' QRSearchSession, the session ends 'failed', an error reason is
\* recorded on the search image, no result is linked or stored, and the
\* QRCodes are unchanged.
NoFaceFailsSession ==
    \A i \in DOMAIN qrSessions :
        (qrSessions[i].status = "initiated" /\ now <= qrSessions[i].expires_at)
        => LET r == QRSearchResult(TokenOf(qrSessions, i),
                                   [kind |-> "no_face", vec |-> NoEmbedding], 0)
           IN
              /\ r.qrSessions[i].status = "failed"
              /\ r.qrSessions[i].search_result = NoRow
              /\ r.recognitionResults = recognitionResults
              /\ r.qrCodes = qrCodes
              /\ \E row \in r.searchImages \ searchImages :
                    /\ row.session = i
                    /\ row.status = "failed"
                    /\ row.error_message # ""

\* C6, its case: a session failed on an image without a face: its image row
\* carries the reason, no result is linked, and its QRCode is still unused
NoFaceFailsSessionWitness ==
    \E i \in DOMAIN qrSessions :
        /\ qrSessions[i].status = "failed"
        /\ qrSessions[i].search_result = NoRow
        /\ qrCodes[qrSessions[i].qr_code].usage_count = 0
        /\ qrCodes[qrSessions[i].qr_code].status = "active"
        /\ \E row \in searchImages :
              /\ row.session = i
              /\ row.status = "failed"
              /\ ~row.face_detected
              /\ row.error_message = "No pet face detected"

\* C7: an image upload on an 'initiated' QRSearchSession whose expires_at has
\* passed is rejected, and as a result of that rejected upload the session's
\* stored status becomes 'expired'.
ExpiredUploadExpiresSession ==
    \A i \in DOMAIN qrSessions :
        (qrSessions[i].status = "initiated" /\ now > qrSessions[i].expires_at)
        => \A img \in SearchUploads :
              LET r == QRSearchResult(TokenOf(qrSessions, i), img, 0) IN
              /\ r.resp.code = 400
              /\ r.qrSessions[i].status = "expired"

(* ================== properties of the completion ======================= *)
\* C11: complete_face_id on an active session sets the session and the pet's
\* registration_status to 'completed' and enqueues exactly one job for
\* (pet, session) if and only if the caller declared success and
\* actual_images_count > 0; in every other case it sets both to 'failed' and
\* enqueues no job.
CompletionDecidesByImages ==
    \A i \in DOMAIN regSessions :
        regSessions[i].status = "active"
        => \A success \in BOOLEAN :
              LET p == regSessions[i].pet
                  r == CompleteFaceIdResult(p, TokenOf(regSessions, i), success)
                  good == success /\ regSessions[i].actual_images_count > 0
              IN
              /\ r.resp.code = 200
              /\ r.regSessions[i].status = IF good THEN "completed" ELSE "failed"
              /\ r.petStatus[p] = IF good THEN "completed" ELSE "failed"
              /\ r.jobQueue = IF good
                              THEN Append(jobQueue, [pet |-> p, session |-> i])
                              ELSE jobQueue

\* C11, its case: a session with an image was completed with success and
\* stands 'completed' with its pet, one job queued for the pair; another
\* session was completed without an image and stands 'failed' with its pet
CompletionDecidesByImagesWitness ==
    \E i, j \in DOMAIN regSessions :
        /\ regSessions[i].status = "completed"
        /\ regSessions[i].actual_images_count > 0
        /\ regSessions[i].end_time # Null
        /\ petStatus[regSessions[i].pet] = "completed"
        /\ Cardinality({k \in DOMAIN jobQueue :
                           jobQueue[k] = [pet |-> regSessions[i].pet, session |-> i]}) = 1
        /\ regSessions[j].status = "failed"
        /\ regSessions[j].end_time # Null
        /\ petStatus[regSessions[j].pet] = "failed"
        /\ \A k \in DOMAIN jobQueue : jobQueue[k].session # j

\* C12: once a PetRegistrationSession's status is 'completed', 'failed' or
\* 'expired', no start, intake or completion request changes its status,
\* image count or end_time, and an intake or completion request addressed to
\* it is answered with an explicit rejection (4xx) that changes nothing.
TerminalRegSessionIsFinal ==
    \A i \in DOMAIN regSessions :
        regSessions[i].status \in RegTerminal
        => /\ \A p \in Pets : StartFaceIdResult(p).regSessions[i] = regSessions[i]
           /\ \A tok \in RegTokens, img \in Detections, d \in Delays :
                 UploadImagesResult(tok, <<img>>, d).regSessions[i] = regSessions[i]
           /\ \A tok \in RegTokens, p \in Pets, success \in BOOLEAN :
                 CompleteFaceIdResult(p, tok, success).regSessions[i] = regSessions[i]
           /\ \A images \in ImageBatches :
                 LET r == UploadImagesResult(TokenOf(regSessions, i), images, 0) IN
                 /\ r.resp.code = 400
                 /\ r.regSessions = regSessions
                 /\ r.petImages = petImages
           /\ \A p \in Pets, success \in BOOLEAN :
                 LET r == CompleteFaceIdResult(p, TokenOf(regSessions, i), success) IN
                 /\ r.resp.code = 400
                 /\ r.regSessions = regSessions
                 /\ r.petStatus = petStatus
                 /\ r.jobQueue = jobQueue

\* C12, its case: a session of each terminal status is stored, the completed
\* one with an image, and requests addressed to the completed one get 400
TerminalRegSessionIsFinalWitness ==
    \E i, j \in DOMAIN regSessions :
        /\ regSessions[i].status = "completed"
        /\ regSessions[i].actual_images_count > 0
        /\ regSessions[j].status = "expired"
        /\ UploadImagesResult(TokenOf(regSessions, i),
                              <<[kind |-> "det", conf |-> 80]>>, 0).resp.code = 400
        /\ CompleteFaceIdResult(regSessions[i].pet, TokenOf(regSessions, i),
                                TRUE).resp.code = 400

\* C13: a completion request for an active registration session whose
\* 30-minute TTL has elapsed never moves that session to 'completed', nor the
\* pet to 'completed'.
StaleSessionNeverCompletes ==
    \A i \in DOMAIN regSessions :
        (regSessions[i].status = "active"
           /\ now > regSessions[i].start_time + SessionTTL)
        => \A success \in BOOLEAN :
              LET p == regSessions[i].pet
                  r == CompleteFaceIdResult(p, TokenOf(regSessions, i), success)
              IN
              /\ r.regSessions[i].status # "completed"
              /\ r.petStatus[p] = "completed" => petStatus[p] = "completed"

(* ===================== properties of the QR codes ====================== *)
\* C14 (amended): QRCode.is_usable() is true exactly when status is 'active',
\* the current time is not after expires_at, and usage_count < max_usage; it
\* is derived from the current field values, so in every state a scan is
\* accepted exactly when these hold.
UsableIffActiveUnexpiredUnderCap ==
    \A c \in DOMAIN qrCodes :
        /\ QRIsUsable(qrCodes[c], now) <=> (qrCodes[c].status = "active" /\ now <= qrCodes[c].expires_at
               /\ qrCodes[c].usage_count < qrCodes[c].max_usage)
        /\ ScanQRResult(c, 0).resp.code = 200 <=> (qrCodes[c].status = "active" /\ now <= qrCodes[c].expires_at
               /\ qrCodes[c].usage_count < qrCodes[c].max_usage)

\* C14, its case: a code already used once, below its cap of 2, is still
\* usable at the very minute of its expiry
UsableIffActiveUnexpiredUnderCapWitness ==
    \E c \in DOMAIN qrCodes :
        /\ qrCodes[c].usage_count = 1
        /\ qrCodes[c].max_usage = 2
        /\ now = qrCodes[c].expires_at
        /\ QRIsUsable(qrCodes[c], now)

\* C14 as stated: QRCode.is_usable() is true exactly when status is 'active',
\* the current time is before expires_at, and usage_count < max_usage.
UsableIffActiveBeforeExpiryUnderCap ==
    \A c \in DOMAIN qrCodes :
        /\ QRIsUsable(qrCodes[c], now) <=> (qrCodes[c].status = "active" /\ now < qrCodes[c].expires_at
               /\ qrCodes[c].usage_count < qrCodes[c].max_usage)
        /\ ScanQRResult(c, 0).resp.code = 200 <=> (qrCodes[c].status = "active" /\ now < qrCodes[c].expires_at
               /\ qrCodes[c].usage_count < qrCodes[c].max_usage)

\* C15: scanning a usable code creates exactly one QRSearchSession with status
\* 'initiated', a token distinct from every existing session token, and
\* expires_at = scan time + 30 minutes, and changes neither usage_count nor
\* status of any code; scanning an unknown or non-usable code is rejected and
\* creates no session.
ScanCreatesOneSession ==
    \A code \in 0..(Len(qrCodes) + 1), d \in Delays :
        LET r == ScanQRResult(code, d)
            n == Len(qrSessions)
        IN
        /\ r.qrCodes = qrCodes
        /\ IF code \in DOMAIN qrCodes
              /\ qrCodes[code].status = "active"
              /\ now + d <= qrCodes[code].expires_at
              /\ qrCodes[code].usage_count < qrCodes[code].max_usage
           THEN /\ r.resp.code = 200
                /\ Len(r.qrSessions) = n + 1
                /\ SubSeq(r.qrSessions, 1, n) = qrSessions
                /\ r.qrSessions[n + 1].qr_code = code
                /\ r.qrSessions[n + 1].status = "initiated"
                /\ r.qrSessions[n + 1].expires_at = now + d + QRSessionTTL
                /\ r.qrSessions[n + 1].search_result = NoRow
                /\ \A i \in 1..n : TokenOf(r.qrSessions, n + 1) # TokenOf(qrSessions, i)
           ELSE /\ r.resp.code = 400
                /\ r.qrSessions = qrSessions

\* C15, its case: a code scanned twice holds two 'initiated' sessions with
\* different tokens, each expiring 30 minutes after its scan, and is itself
\* still unused and active
ScanCreatesOneSessionWitness ==
    \E i, j \in DOMAIN qrSessions :
        /\ i # j
        /\ qrSessions[i].qr_code = qrSessions[j].qr_code
        /\ qrSessions[i].status = "initiated"
        /\ qrSessions[j].status = "initiated"
        /\ TokenOf(qrSessions, i) # TokenOf(qrSessions, j)
        /\ qrSessions[i].expires_at = QRSessionTTL
        /\ qrSessions[j].expires_at = TickMinutes + QRSessionTTL
        /\ qrCodes[qrSessions[i].qr_code].usage_count = 0
        /\ qrCodes[qrSessions[i].qr_code].status = "active"

CompletedRows == {i \in DOMAIN faceEmbeddings : faceEmbeddings[i].status = "completed"}

\* C17: find_similar_pets(query, top_k) returns exactly min(top_k, number of
\* completed Templates) entries, each from a different completed Template and
\* with that Template's similarity to the query, in non-increasing order of
\* similarity, and every completed Template left out has a similarity no
\* greater than the last returned one.
RankingIsTopKOfCompleted ==
    ret # <<>> =>
        LET res == ret[1]
            n == Cardinality(CompletedRows)
            Sim(i) == CosineSimilarity(args.query, faceEmbeddings[i].vec)
        IN
        /\ Len(res) = IF args.top_k < n THEN args.top_k ELSE n
        /\ \A k \in DOMAIN res :
              /\ res[k].embedding \in CompletedRows
              /\ res[k].similarity = Sim(res[k].embedding)
              /\ res[k].pet = faceEmbeddings[res[k].embedding].pet
        /\ \A k, l \in DOMAIN res : k # l => res[k].embedding # res[l].embedding
        /\ \A k \in 1..(Len(res) - 1) :
              ~SimLess(res[k].similarity, res[k + 1].similarity)
        /\ \A i \in CompletedRows :
              (\A k \in DOMAIN res : res[k].embedding # i)
              => /\ res # <<>>
                 /\ ~SimLess(res[Len(res)].similarity, Sim(i))

\* C17, its case: of three completed Templates the two most similar are
\* returned for top_k = 2, in strictly decreasing similarity
RankingIsTopKOfCompletedWitness ==
    /\ ret # <<>>
    /\ Cardinality(CompletedRows) = 3
    /\ args.top_k = 2
    /\ Len(ret[1]) = 2
    /\ SimLess(ret[1][2].similarity, ret[1][1].similarity)
    /\ \E i \in CompletedRows :
          SimLess(CosineSimilarity(args.query, faceEmbeddings[i].vec),
                  ret[1][2].similarity)

\* C18: among candidates of equal similarity the ranking keeps the order in
\* which the corpus is iterated, and the ranks stored on the created results
\* are 1, 2, ..., n in result order.
TiesKeepIterationOrderRanksFromOne ==
    ret # <<>> =>
        LET res == ret[1]
            order == CompletedNewestFirst(faceEmbeddings, Len(faceEmbeddings))
            Pos(e) == CHOOSE k \in DOMAIN order : order[k] = e
        IN
        /\ \A k, l \in DOMAIN res :
              (k < l /\ ~SimLess(res[l].similarity, res[k].similarity))
              => Pos(res[k].embedding) < Pos(res[l].embedding)
        /\ Len(ret) = 2 =>
              /\ \A k \in DOMAIN ret[2] :
                    /\ ret[2][k].rank = k
                    /\ ret[2][k].matched_embedding = res[k].embedding
                    /\ ret[2][k].similarity_score = res[k].similarity
              /\ recognitionResults = {ret[2][k] : k \in DOMAIN ret[2]}
              /\ {r.rank : r \in recognitionResults} = 1..Cardinality(recognitionResults)

\* C18, its case: two Templates tie for the first place, the one iterated
\* first is ranked first, and the results created carry ranks 1 and 2
TiesKeepIterationOrderRanksFromOneWitness ==
    /\ Len(ret) = 2
    /\ Len(ret[1]) >= 2
    /\ ret[1][1].similarity = ret[1][2].similarity
    /\ ret[1][1].embedding > ret[1][2].embedding
    /\ \E r1, r2 \in recognitionResults :
          /\ r1.rank = 1 /\ r1.matched_embedding = ret[1][1].embedding
          /\ r2.rank = 2 /\ r2.matched_embedding = ret[1][2].embedding

\* C19: the ranking contains at most one entry per subject, and that entry is
\* computed from the subject's newest completed Template.
RankingHasOneEntryPerSubject ==
    ret # <<>> =>
        LET res == ret[1] IN
        /\ \A k, l \in DOMAIN res : k # l => res[k].pet # res[l].pet
        /\ \A k \in DOMAIN res :
              \A i \in CompletedRows :
                  faceEmbeddings[i].pet = res[k].pet => i <= res[k].embedding

(* ================= properties of the Template generation ================ *)
\* C20: generate_pet_embeddings creates no Template and returns none when no
\* image yields an embedding; otherwise it creates exactly one Template with
\* status 'completed' whose source_images_count is the number of images that
\* passed detection, crop and embedding, the failing images being skipped.
GenerationCreatesOneTemplate ==
    ret # <<>> =>
        LET valid == Cardinality({k \in DOMAIN args.outcomes :
                                     args.outcomes[k].kind = "ok"})
        IN
        IF valid = 0
        THEN faceEmbeddings = <<>> /\ ret[1] = <<>>
        ELSE /\ Len(faceEmbeddings) = 1
             /\ faceEmbeddings[1].pet = args.pet
             /\ faceEmbeddings[1].status = "completed"
             /\ faceEmbeddings[1].source_images_count = valid
             /\ ret[1] = <<faceEmbeddings[1]>>

\* C21: the Template built from a list of images holds the component-wise
\* arithmetic mean of the contributing embeddings and the number of them, and
\* every permutation of the list yields the same vector and the same count.
TemplateIsOrderIndependentMean ==
    ret # <<>> =>
        LET valid == SelectSeq(args.outcomes, LAMBDA o : o.kind = "ok")
            n == Len(valid)
            Total(k) == SeqSum([j \in 1..n |-> valid[j].vec[k]])
        IN
        n > 0 =>
            /\ ret[1] # <<>>
            /\ ret[1][1].source_images_count = n
            /\ \A k \in DOMAIN ret[1][1].vec :
                  ret[1][1].vec[k].num * n = Total(k) * ret[1][1].vec[k].den
            /\ \A f \in Permutations(DOMAIN args.outcomes) :
                  LET other == GeneratePetEmbeddingsResult(
                                   args.pet,
                                   [k \in DOMAIN args.outcomes |-> args.outcomes[f[k]]])
                  IN /\ other.returned # <<>>
                     /\ other.returned[1].vec = ret[1][1].vec
                     /\ other.returned[1].source_images_count = n

\* C22: a generation request for a pet that already has a completed Template
\* creates nothing and reports already_exists unless force_regenerate is set;
\* with force_regenerate (and an image that yields an embedding) one Template
\* is added and every Template stored before is left as it was.
RegenerationAddsTemplate ==
    (/\ ret = <<>>
     /\ petStatus[args.pet] = "completed"
     /\ \E i \in DOMAIN faceEmbeddings :
           /\ faceEmbeddings[i].pet = args.pet
           /\ faceEmbeddings[i].status = "completed")
    => LET r == GenerateEmbeddingsViewResult(args.pet, args.force_regenerate,
                                             args.images)
           n == Len(faceEmbeddings)
       IN
       /\ SubSeq(r.faceEmbeddings, 1, n) = faceEmbeddings
       /\ ~args.force_regenerate
            => /\ r.faceEmbeddings = faceEmbeddings
               /\ r.results = <<[pet_id |-> args.pet, status |-> "already_exists"]>>
       /\ (args.force_regenerate
             /\ \E k \in DOMAIN args.images : args.images[k].kind = "ok")
            => /\ Len(r.faceEmbeddings) = n + 1
               /\ r.faceEmbeddings[n + 1].pet = args.pet
               /\ r.results = <<[pet_id |-> args.pet, status |-> "success"]>>

(* ======================= properties of the cosine ======================= *)
\* C23: during ranking a completed Template whose vector has another
\* dimension than the query does not appear in the result list, and the other
\* completed Templates are still ranked and returned.
MismatchedTemplateIsSkipped ==
    ret # <<>> =>
        LET res == ret[1]
            comparable == {i \in CompletedRows :
                              Len(faceEmbeddings[i].vec) = Len(args.query)}
        IN
        /\ \A k \in DOMAIN res : res[k].embedding \in comparable
        /\ Len(res) = IF args.top_k < Cardinality(comparable)
                      THEN args.top_k ELSE Cardinality(comparable)

\* C24: calculate_cosine_similarity(a, b) is always in [0, 1]; for non-zero
\* vectors with a negative dot product it is exactly 0, in particular for v
\* and -v.
CosineIsClamped ==
    ret # <<>> =>
        LET a == args.vec1
            b == args.vec2
            Sq(v) == SeqSum([k \in DOMAIN v |-> v[k] * v[k]])
        IN
        /\ ret[1].den > 0
        /\ 0 <= ret[1].num
        /\ ret[1].num <= ret[1].den
        /\ (/\ Len(a) = Len(b)
            /\ Sq(a) > 0
            /\ Sq(b) > 0
            /\ SeqSum([k \in DOMAIN a |-> a[k] * b[k]]) < 0)
           => ret[1].num = 0
        /\ (Sq(a) > 0 /\ b = [k \in DOMAIN a |-> 0 - a[k]]) => ret[1].num = 0

\* C24, its case: the call on (1, 2) and (-1, -2) has returned 0
CosineIsClampedWitness ==
    /\ args = [vec1 |-> <<1, 2>>, vec2 |-> <<0 - 1, 0 - 2>>]
    /\ ret # <<>>
    /\ ret[1].num = 0

\* C25: for a zero vector z and any vector w of the same dimension,
\* calculate_cosine_similarity(z, w) and (w, z) return 0.
ZeroVectorGivesZero ==
    LET IsZero(v) == \A k \in DOMAIN v : v[k] = 0 IN
    (/\ ret # <<>>
     /\ Len(args.vec1) = Len(args.vec2)
     /\ IsZero(args.vec1) \/ IsZero(args.vec2))
    => ret[1].num = 0

QualityFromConfidence ==
    \A i \in DOMAIN regSessions, img \in Detections :
        (regSessions[i].status = "active"
           /\ now <= regSessions[i].start_time + SessionTTL)
        => LET r == UploadImagesResult(TokenOf(regSessions, i), <<img>>, 0)
               q == r.petImages[Len(petImages) + 1].quality_status
               c == img.conf
           IN
           /\ r.resp.code = 200
           /\ Len(r.petImages) = Len(petImages) + 1
           /\ q \in {"good", "poor", "rejected"}
           /\ q = "good" <=> (img.kind = "det" /\ c > 70)
           /\ q = "poor" <=> (img.kind = "det" /\ 50 < c /\ c <= 70)
           /\ q = "rejected" <=> (img.kind # "det" \/ c <= 50)

\* C27, its case: an image appended to a session that is still active was
\* classified 'poor'
QualityFromConfidenceWitness ==
    \E k \in DOMAIN petImages :
        /\ petImages[k].quality_status = "poor"
        /\ regSessions[petImages[k].session].status = "active"
        /\ regSessions[petImages[k].session].actual_images_count = 1

\* C27 as stated: 'good' iff c > 0.7, 'poor' iff 0.5 <= c <= 0.7, 'rejected'
\* iff c < 0.5 or nothing was detected or the detection raised.
QualityFromConfidenceInclusive ==
    \A i \in DOMAIN regSessions, img \in Detections :
        (regSessions[i].status = "active"
           /\ now <= regSessions[i].start_time + SessionTTL)
        => LET r == UploadImagesResult(TokenOf(regSessions, i), <<img>>, 0)
               q == r.petImages[Len(petImages) + 1].quality_status
               c == img.conf
           IN
           /\ r.resp.code = 200
           /\ Len(r.petImages) = Len(petImages) + 1
           /\ q \in {"good", "poor", "rejected"}
           /\ q = "good" <=> (img.kind = "det" /\ c > 70)
           /\ q = "poor" <=> (img.kind = "det" /\ 50 <= c /\ c <= 70)
           /\ q = "rejected" <=> (img.kind # "det" \/ c < 50)

ExhaustedCodeScanSaysExhausted ==
    \A c \in DOMAIN qrCodes :
        qrCodes[c].usage_count >= qrCodes[c].max_usage
        => LET r == ScanQRResult(c, 0) IN
           /\ r.resp.code = 400
           /\ r.qrSessions = qrSessions
           /\ r.resp.error = "QR code has reached maximum usage"
           /\ r.resp.error # "QR code has expired"
           /\ r.resp.error # "Invalid QR code"

(* ====================== properties of the project id ==================== *)
\* C30: generate_project_id(name, input_id) is the first 6 digit characters
\* of input_id, right-padded with '0' to length 6, followed by the first 3
\* alphabetic characters of the lower-cased name, right-padded with 'x' to
\* length 3; its length is always 9, and ('Fluffy', '123456789') gives
\* '123456flu'.
ProjectIdIsSixDigitsThreeLetters ==
    ret # <<>> =>
        LET id == ret[1]
            ds == SelectSeq(args.input_id, IsDigit)
            ls == SelectSeq(Lower(args.name), IsAlpha)
        IN
        /\ Len(id) = 9
        /\ \A k \in 1..6 : id[k] = IF k <= Len(ds) THEN ds[k] ELSE "0"
        /\ \A k \in 1..3 : id[6 + k] = IF k <= Len(ls) THEN ls[k] ELSE "x"
        /\ (args.name = <<"F", "l", "u", "f", "f", "y">>
              /\ args.input_id = <<"1", "2", "3", "4", "5", "6", "7", "8", "9">>)
           => id = <<"1", "2", "3", "4", "5", "6", "f", "l", "u">>

\* C30, its case: an identifier with two digits among other characters and
\* the name 'Fluffy' have given a padded id
ProjectIdIsSixDigitsThreeLettersWitness ==
    /\ args.input_id = <<"-", "2", "-", "1">>
    /\ args.name = <<"F", "l", "u", "f", "f", "y">>
    /\ ret = << <<"2", "1", "0", "0", "0", "0", "f", "l", "u">> >>

(* ================= properties of the QR usage counter =================== *)
\* C31: in every reachable state usage_count <= max_usage holds for every
\* QRCode, also when several sessions were opened from the same code before
\* any of them completed.
UsageCountWithinCap ==
    \A c \in DOMAIN qrCodes : qrCodes[c].usage_count <= qrCodes[c].max_usage

(* ================== properties of the pet's status ====================== *)
\* C37: whenever a pet's registration_status is 'processing', that pet has a
\* registration session with status 'active'; a pet is never left in
\* 'processing' once its session is 'expired', 'completed' or 'failed'.
ProcessingPetHasActiveSession ==
    \A p \in Pets :
        petStatus[p] = "processing"
        => \E i \in DOMAIN regSessions :
              regSessions[i].pet = p /\ regSessions[i].status = "active"

(* ================ properties of the expired QR sessions ================= *)
\* C35: an image upload on a QRSearchSession whose expires_at has passed at
\* the time of the request never moves the session to 'processing',
\* 'completed' or 'failed', never creates a search image or a result, and
\* never changes a QRCode's usage_count.
ExpiredSessionUploadChangesNothing ==
    \A i \in DOMAIN qrSessions :
        now > qrSessions[i].expires_at
        => \A img \in SearchUploads :
              \A r \in {QRSearchResult(TokenOf(qrSessions, i), img, 0)} :
              /\ r.resp.code = 400
              /\ r.qrSessions[i].status \in {qrSessions[i].status, "expired"}
              /\ \A j \in DOMAIN qrSessions :
                    j # i => r.qrSessions[j] = qrSessions[j]
              /\ r.searchImages = searchImages
              /\ r.recognitionResults = recognitionResults
              /\ \A c \in DOMAIN qrCodes :
                    r.qrCodes[c].usage_count = qrCodes[c].usage_count

\* C35, its case: a session still 'initiated' after its expiry, on a code
\* that is still usable, refuses an image that would yield an embedding
ExpiredSessionUploadChangesNothingWitness ==
    \E i \in DOMAIN qrSessions :
        /\ qrSessions[i].status = "initiated"
        /\ now > qrSessions[i].expires_at
        /\ now <= qrCodes[qrSessions[i].qr_code].expires_at
        /\ qrCodes[qrSessions[i].qr_code].status = "active"
        /\ QRSearchResult(TokenOf(qrSessions, i), [kind |-> "ok", vec |-> <<1, 0>>],
                          0).resp.error = "Search session has expired"

(* ================ properties of the two similarity functions =========== *)
\* C39: FaceEmbedding.calculate_similarity and calculate_cosine_similarity
\* return the same value for every pair of vectors of equal dimension, both
\* within [0, 1], and both 0 when either vector has zero magnitude.
SimilarityFunctionsAgree ==
    (Len(ret) = 2 /\ Len(args.vec1) = Len(args.vec2))
    => /\ ret[1].num * ret[2].den = ret[2].num * ret[1].den
       /\ \A k \in 1..2 : 0 <= ret[k].num /\ ret[k].num <= ret[k].den
       /\ ((\A j \in DOMAIN args.vec1 : args.vec1[j] = 0)
            \/ (\A j \in DOMAIN args.vec2 : args.vec2[j] = 0))
          => (ret[1].num = 0 /\ ret[2].num = 0)

(* ================== properties of the linked result ==================== *)
\* C38: the result linked to a completed QRSearchSession is the rank-1
\* candidate of its search (no completed Template is strictly more similar to
\* the query), its confidence level is the level of its own score, and the
\* similarity_percentage reported is that score times 100 (0.93 is reported
\* as the high level and 93.0).
LinkedResultIsBestMatch ==
    LET Level(x) == IF 100 * x.num >= 81 * x.den THEN "eagle_trail"
                    ELSE IF 100 * x.num >= 64 * x.den THEN "lobo_trail"
                    ELSE "no_match"
        Sq(v) == SeqSum([k \in DOMAIN v |-> v[k] * v[k]])
        Prod(a, b) == SeqSum([k \in DOMAIN a |-> a[k] * b[k]])
    IN
    /\ \A i \in DOMAIN qrSessions :
          (qrSessions[i].status = "completed"
             /\ qrSessions[i].search_result # NoRow)
          => \E res \in recognitionResults :
                /\ res.id = qrSessions[i].search_result
                /\ res.confidence_level = Level(res.similarity_score)
    /\ \A i \in DOMAIN qrSessions, img \in SearchUploads, d \in Delays :
          (qrSessions[i].status = "initiated" /\ img.kind = "ok")
          => \A r \in {QRSearchResult(TokenOf(qrSessions, i), img, d)} :
          (/\ r.qrSessions[i].status = "completed"
           /\ r.qrSessions[i].search_result # NoRow)
          => \E res \in r.recognitionResults :
                /\ res.id = r.qrSessions[i].search_result
                /\ res.id \notin {x.id : x \in recognitionResults}
                /\ res.similarity_score.den > 0
                /\ \A k \in DOMAIN faceEmbeddings :
                      faceEmbeddings[k].status = "completed"
                      => LET v == faceEmbeddings[k].vec
                             dot == Prod(img.vec, v)
                             num == IF dot <= 0 THEN 0 ELSE dot * dot
                         IN num * res.similarity_score.den
                              <= res.similarity_score.num * Sq(img.vec) * Sq(v)
                /\ res.confidence_level = Level(res.similarity_score)
                /\ r.data.confidence_level = res.confidence_level
                /\ r.data.similarity_percentage.den > 0
                /\ r.data.similarity_percentage.num * res.similarity_score.den
                     = 10000 * res.similarity_score.num
                         * r.data.similarity_percentage.den
    /\ ConfidenceLevelOfScore(9300) = "eagle_trail"

\* C38, its case: a completed session is linked to a result for pet 2 at the
\* high level, the newer of two completed Templates and the closer one to
\* the query
LinkedResultIsBestMatchWitness ==
    \E i \in DOMAIN qrSessions :
        /\ qrSessions[i].status = "completed"
        /\ Len(faceEmbeddings) = 3
        /\ \E res \in recognitionResults :
              /\ res.id = qrSessions[i].search_result
              /\ res.matched_pet = 2
              /\ res.confidence_level = "eagle_trail"
              /\ res.similarity_score = [num |-> 9, den |-> 10]

(* ============== properties of the interleaved image intake ============= *)
\* C34: a registration session's actual_images_count equals the number of
\* PetImage rows attached to it, and their sequence numbers are exactly
\* 1..actual_images_count without duplicates, also when two uploads for the
\* same session interleave (read here once no upload for the session is
\* in flight).
ImageCountMatchesImages ==
    \A i \in DOMAIN regSessions :
        (\A r \in DOMAIN reqs : reqs[r].pc = "upload" => reqs[r].sid # i)
        => LET mine == {k \in DOMAIN petImages : petImages[k].session = i} IN
           /\ regSessions[i].actual_images_count = Cardinality(mine)
           /\ {petImages[k].sequence_number : k \in mine}
                = 1..regSessions[i].actual_images_count
           /\ \A k, l \in mine :
                 petImages[k].sequence_number = petImages[l].sequence_number
                 => k = l

(* ============== properties of the interleaved image searches =========== *)
\* C32: when two image uploads carrying the same session token interleave,
\* both passing the token validation before either writes 'processing', the
\* session consumes its QRCode at most once: each session raises usage_count
\* by at most 1, so that the count never exceeds the number of the code's
\* sessions that an upload was accepted on, and at most one result is created
\* for a session.
SessionConsumesCodeOnce ==
    /\ \A c \in DOMAIN qrCodes :
          qrCodes[c].usage_count
            <= Cardinality({i \in DOMAIN qrSessions :
                               /\ qrSessions[i].qr_code = c
                               /\ qrSessions[i].status # "initiated"})
    /\ \A i \in DOMAIN qrSessions :
          Cardinality({res \in recognitionResults : res.id[1] = i}) <= 1

\* C33: in every state reached by interleaved uploads on different sessions
\* of the same QRCode, the code's usage_count equals the number of its
\* sessions with status 'completed': no increment is lost or duplicated.
UsageCountEqualsCompletedSessions ==
    \A c \in DOMAIN qrCodes :
        qrCodes[c].usage_count
          = Cardinality({i \in DOMAIN qrSessions :
                            /\ qrSessions[i].qr_code = c
                            /\ qrSessions[i].status = "completed"})

====
